---- MODULE Spec2Model ----
(***************************************************************************)
(* Model of the diorama-bg compositor: DioramaController (layer set,       *)
(* render pass, 3D controls), ImageLayer (asynchronous image loading),     *)
(* Transform3D, PerspectiveProjection and the layer-3d utilities.          *)
(*                                                                         *)
(* Angles are integers in milliradians, so the code's threshold 0.001 is   *)
(* the integer 1 and vec3.length(r) > 0.001 is x*x + y*y + z*z > 1.        *)
(* An aspect ratio w / h is kept as the pair <<w, h>>.                     *)
(***************************************************************************)
EXTENDS Integers, Sequences, FiniteSets, TLC

\* ------------------------------------------------------------------ bounds
NumLayers == 2
MaxImages == 3
MaxCalls == 2
MaxPoints == 3

LayerIds == 1..NumLayers
ZIndices == {0, 1}
Urls == {"a", "b"}
RotationValues == {<<0, 0, 0>>, <<0, 500, 0>>, <<300, 0, 200>>}
ViewRotations == {<<0, 0, 0>>, <<1, 0, 0>>, <<1, 1, 0>>, <<0, 500, 0>>}
ContainerSizes == {<<0, 0>>}
MeasuredSizes == {<<0, 0>>, <<640, 0>>, <<0, 480>>, <<640, 480>>}
StageLayers == {1, 2, 3}
StageZIndices == {0, 1, 2}
StageDepths == {0, 4, 10}
DepthSpacings == {1, 2}
StartDepths == {0, 5}
MaxDepths == {0, 7, 20}
Curves == {1, 2}
CameraPositions == {<<0, 0, 5>>, <<0, 0, 2>>, <<3, 4, 0>>}
ScaleDepths == {<<0, 1>>, <<1, 20>>, <<-1, 20>>, <<2, 1>>, <<-2, 1>>, <<5, 1>>}
Strengths == {<<0, 1>>, <<1, 2>>, <<1, 1>>}
Points3D == {<<0, 0, 0>>, <<1, 1, -1>>, <<-1, 2, -3>>, <<0, 0, -4>>, <<2, -1, 1>>}
\* MVP matrices by rows: the identity, a perspective matrix with w = -z, and
\* a matrix with w = -1
MvpMatrices ==
  {<<<<1, 0, 0, 0>>, <<0, 1, 0, 0>>, <<0, 0, 1, 0>>, <<0, 0, 0, 1>>>>,
   <<<<2, 0, 0, 0>>, <<0, 2, 0, 0>>, <<0, 0, -2, -3>>, <<0, 0, -1, 0>>>>,
   <<<<1, 0, 0, 0>>, <<0, 1, 0, 0>>, <<0, 0, 1, 0>>, <<0, 0, 0, -1>>>>}
Faults == {"none", "transform", "paint"}
LayerDepths == {0, -3, -4}
TransformVectors == {<<0, 0, 0>>, <<1, 2, 3>>}
FovDegrees == {45, 60}
PerspectiveSettingsValues ==
  {[fov |-> 45, aspect |-> <<1, 1>>, near |-> 1, far |-> 100],
   [fov |-> 90, aspect |-> <<16, 9>>, near |-> 5, far |-> 50]}
\* DOMRect values, as left, top, right, bottom
CanvasBounds == {[left |-> 0, top |-> 0, right |-> 800, bottom |-> 600],
                 [left |-> 100, top |-> 100, right |-> 700, bottom |-> 500]}
Margins == {0, 50}

\* ------------------------------------------------------- program constants
DefaultWidth == 800
DefaultHeight == 600
RotationEpsilon == 1
DefaultFovDegrees == 45
DefaultNearTenths == 1
DefaultFar == 100
DefaultCameraZ == 5
DefaultReferenceDistance == 5

VARIABLES
  layers,              \* DioramaController.layers: sequence of layer ids
  zIndex,              \* LayerBase.zIndex of every layer instance
  zPosition,           \* LayerBase.zPosition of every layer instance
  imageUrl,            \* ImageLayer.imageUrl
  image,               \* ImageLayer.image: id of the Image object held, 0 = null
  isLoaded,            \* ImageLayer.isLoaded
  isLoading,           \* ImageLayer.isLoading
  images,              \* every Image object created so far, by id
  calls,               \* async calls suspended at their await
  settled,             \* promises settled by the last step
  nCalls,              \* number of async calls made so far
  globalRotation,      \* DioramaController.globalRotation (milliradians)
  cameraPosition,      \* DioramaController.cameraPosition
  perspectiveSettings, \* DioramaController.perspectiveSettings
  mainCanvas,          \* width and height of the main canvas
  mainContext,         \* 2D context: current transform and saved-state stack
  lastRender,          \* what the last step did if it was a render() call
  containerChildren,   \* number of canvas children of the container element
  perspectiveProjection, \* PerspectiveProjection: screen size and its own settings
  transform3D,         \* DioramaController.transform3D: the global Transform3D
  lastCall,            \* the controller call made by the last step, if any
  stage,               \* layers handed to the layer-3d utilities: zIndex, zPosition
  lastUtil             \* the utility call made by the last step, its input and result

layerVars == <<zIndex, zPosition, imageUrl, image, isLoaded, isLoading, images>>
callVars == <<calls, settled, nCalls>>
viewVars == <<globalRotation, cameraPosition, perspectiveSettings, mainCanvas,
              containerChildren, perspectiveProjection, transform3D>>
utilVars == <<stage, lastUtil>>
controllerVars == <<layers, layerVars, callVars, viewVars, mainContext, lastRender,
                    lastCall>>
vars == <<layers, layerVars, callVars, viewVars, mainContext, lastRender, lastCall,
          utilVars>>

\* ----------------------------------------------------------------- helpers
NoRender == [called |-> FALSE]
NoCall == [op |-> "none"]
\* no utility has been called and no layer handed to one
NoStage == [zIndex |-> <<>>, zPosition |-> <<>>, transform3D |-> <<>>]
NoUtil == [fn |-> "none"]

RECURSIVE RemoveFirst(_, _)
\* Array.indexOf + splice(index, 1): drops the first occurrence only
RemoveFirst(s, x) ==
  IF s = <<>> THEN <<>>
  ELSE IF Head(s) = x THEN Tail(s)
  ELSE <<Head(s)>> \o RemoveFirst(Tail(s), x)

Contains(s, x) == \E i \in 1..Len(s) : s[i] = x

InFlight(imgs, L) == {i \in 1..Len(imgs) : imgs[i].layer = L /\ imgs[i].state = "fetching"}

\* The layer-side state that loadImage reads and writes.
LayerState == [isLoaded |-> isLoaded, isLoading |-> isLoading,
               image |-> image, images |-> images]

\* ------------------------------------------------------------- ImageLayer
\* loadImage(): returns the resolved promise (0) when loaded or loading,
\* otherwise creates a new Image, starts its fetch and returns its promise.
loadImage(ls, L, url) ==
  IF ls.isLoaded[L] \/ ls.isLoading[L]
  THEN [ls |-> ls, promise |-> 0]
  ELSE LET id == Len(ls.images) + 1 IN
       [ls |-> [isLoaded |-> ls.isLoaded,
                isLoading |-> [ls.isLoading EXCEPT ![L] = TRUE],
                image |-> [ls.image EXCEPT ![L] = id],
                images |-> Append(ls.images,
                                  [layer |-> L, url |-> url, state |-> "fetching"])],
        promise |-> id]

\* updateImage(): the synchronous part before its await. It forgets the image
\* and both flags (whatever fetch is in flight) and calls loadImage().
updateImage(ls, L, url) ==
  loadImage([isLoaded |-> [ls.isLoaded EXCEPT ![L] = FALSE],
             isLoading |-> [ls.isLoading EXCEPT ![L] = FALSE],
             image |-> [ls.image EXCEPT ![L] = 0],
             images |-> ls.images], L, url)

\* image.onload of Image object i, a closure over the layer that created it.
onload(loaded, loading, L) ==
  [isLoaded |-> [loaded EXCEPT ![L] = TRUE],
   isLoading |-> [loading EXCEPT ![L] = FALSE]]

\* image.onerror of Image object i: the error names the layer's imageUrl as
\* it is when the event fires.
onerror(loaded, loading, L) ==
  [isLoaded |-> loaded,
   isLoading |-> [loading EXCEPT ![L] = FALSE]]

\* ------------------------------------------------------ DioramaController
\* removeLayer(): drops the first occurrence of the layer, if any.
removeLayer(ls, L) == RemoveFirst(ls, L)

\* The catch block of addLayer: runs when the awaited load() rejected.
addLayerCatch(ls, L) == removeLayer(ls, L)

\* ---------------------------------------------------------------- actions
SetLayerState(ls) ==
  /\ isLoaded' = ls.isLoaded
  /\ isLoading' = ls.isLoading
  /\ image' = ls.image
  /\ images' = ls.images

NewCall(kind, L, r) ==
  [id |-> nCalls + 1, kind |-> kind, layer |-> L, awaits |-> r.promise,
   joined |-> InFlight(images, L),
   started |-> Len(r.ls.images) > Len(images)]

\* controller.addLayer(L) up to its await of layer.load()
AddLayer(L) ==
  /\ nCalls < MaxCalls
  /\ \E r \in {loadImage(LayerState, L, imageUrl[L])} :
       /\ Len(r.ls.images) <= MaxImages
       /\ layers' = Append(layers, L)
       /\ SetLayerState(r.ls)
       /\ calls' = calls \cup {NewCall("addLayer", L, r)}
  /\ nCalls' = nCalls + 1
  /\ settled' = {}
  /\ lastRender' = NoRender
  /\ lastCall' = NoCall
  /\ UNCHANGED <<zIndex, zPosition, imageUrl, viewVars, mainContext, utilVars>>

\* layer.load() or layer.preloadImage() called directly, up to its await
Load(L) ==
  /\ nCalls < MaxCalls
  /\ \E r \in {loadImage(LayerState, L, imageUrl[L])} :
       /\ Len(r.ls.images) <= MaxImages
       /\ SetLayerState(r.ls)
       /\ calls' = calls \cup {NewCall("load", L, r)}
  /\ nCalls' = nCalls + 1
  /\ settled' = {}
  /\ lastRender' = NoRender
  /\ lastCall' = NoCall
  /\ UNCHANGED <<layers, zIndex, zPosition, imageUrl, viewVars, mainContext, utilVars>>

\* layer.updateImage(url) up to its await
UpdateImage(L, url) ==
  /\ nCalls < MaxCalls
  /\ \E r \in {updateImage(LayerState, L, url)} :
       /\ Len(r.ls.images) <= MaxImages
       /\ SetLayerState(r.ls)
       /\ calls' = calls \cup {NewCall("updateImage", L, r)}
  /\ imageUrl' = [imageUrl EXCEPT ![L] = url]
  /\ nCalls' = nCalls + 1
  /\ settled' = {}
  /\ lastRender' = NoRender
  /\ lastCall' = NoCall
  /\ UNCHANGED <<layers, zIndex, zPosition, viewVars, mainContext, utilVars>>

RemoveLayer(L) ==
  /\ layers' = removeLayer(layers, L)
  /\ settled' = {}
  /\ lastRender' = NoRender
  /\ lastCall' = [op |-> "removeLayer", layer |-> L, before |-> layers]
  /\ UNCHANGED <<layerVars, calls, nCalls, viewVars, mainContext, utilVars>>

\* The outcome of a suspended call once the promise it awaits has settled.
Settle(c, outcome, err) ==
  [id |-> c.id, kind |-> c.kind, layer |-> c.layer, outcome |-> outcome,
   error |-> err, joined |-> c.joined, started |-> c.started, awaits |-> c.awaits]

\* The fetch of Image object i ends: onload or onerror runs, and then, in the
\* same microtask checkpoint, the continuation of the call awaiting its promise.
FetchComplete(i, ok) ==
  /\ i \in 1..Len(images)
  /\ images[i].state = "fetching"
  /\ \A c \in calls : c.awaits # 0
  /\ LET L == images[i].layer
         fl == IF ok THEN onload(isLoaded, isLoading, L)
                     ELSE onerror(isLoaded, isLoading, L)
         err == [img |-> i, url |-> imageUrl[L]]
         woken == {c \in calls : c.awaits = i}
         failedAdd == {c \in woken : c.kind = "addLayer"}
     IN
       /\ images' = [images EXCEPT ![i].state = IF ok THEN "complete" ELSE "broken"]
       /\ isLoaded' = fl.isLoaded
       /\ isLoading' = fl.isLoading
       /\ calls' = calls \ woken
       /\ settled' = {Settle(c, IF ok THEN "resolved" ELSE "rejected",
                             IF ok THEN [img |-> 0, url |-> ""] ELSE err) : c \in woken}
       /\ layers' = IF ~ok /\ failedAdd # {} THEN addLayerCatch(layers, L) ELSE layers
  /\ lastRender' = NoRender
  /\ lastCall' = NoCall
  /\ UNCHANGED <<zIndex, zPosition, imageUrl, image, nCalls, viewVars, mainContext,
                 utilVars>>

\* The microtask checkpoint at the end of the running task: every call that
\* awaits an already-resolved promise continues, and resolves.
RunMicrotasks ==
  /\ \E c \in calls : c.awaits = 0
  /\ LET woken == {c \in calls : c.awaits = 0} IN
       /\ calls' = calls \ woken
       /\ settled' = {Settle(c, "resolved", [img |-> 0, url |-> ""]) : c \in woken}
  /\ lastRender' = NoRender
  /\ lastCall' = NoCall
  /\ UNCHANGED <<layers, layerVars, nCalls, viewVars, mainContext, utilVars>>

\* -------------------------------------------------- CanvasRenderingContext2D
IdentityContext == [cur |-> <<>>, stack |-> <<>>]

\* ctx.save(): pushes the current transform
CtxSave(c) == [c EXCEPT !.stack = Append(@, c.cur)]

\* ctx.restore(): pops it, and does nothing on an empty stack
CtxRestore(c) ==
  IF c.stack = <<>> THEN c
  ELSE [cur |-> c.stack[Len(c.stack)], stack |-> SubSeq(c.stack, 1, Len(c.stack) - 1)]

\* ctx.translate / rotate / scale / transform: composes onto the current transform
CtxApply(c, op) == [c EXCEPT !.cur = Append(@, op)]

Abs(n) == IF n < 0 THEN -n ELSE n
Max(a, b) == IF a > b THEN a ELSE b
Min(a, b) == IF a < b THEN a ELSE b

\* ------------------------------------------------------------ Transform3D
\* A matrix is kept as the ordered list of the factors it is the product of,
\* leftmost first: <<>> is the identity and multiply(a, b) is a x b, so the
\* point a product is applied to meets its last factor first.
identity == <<>>

\* mat4.multiply(out, a, b): out = a x b
multiply(a, b) == a \o b

\* updateMatrices(): identity, then x scale, x rotation, x translation, and
\* the transform is clean
updateMatrices(t) ==
  [t EXCEPT !.modelMatrix =
              multiply(multiply(multiply(identity, <<[m |-> "scale", v |-> t.scale]>>),
                                <<[m |-> "rotation", v |-> t.rotation]>>),
                       <<[m |-> "translation", v |-> t.translation]>>),
            !.isDirty = FALSE]

markDirty(t) == [t EXCEPT !.isDirty = TRUE]

\* new Transform3D(rotation, translation, scale): copies them and computes
\* the matrices
Transform3D(rotation, translation, scale) ==
  updateMatrices([rotation |-> rotation, translation |-> translation,
                  scale |-> scale, modelMatrix |-> identity, isDirty |-> TRUE])

\* new Transform3D(): zero rotation and translation, unit scale
newTransform3D == Transform3D(<<0, 0, 0>>, <<0, 0, 0>>, <<1, 1, 1>>)

\* setRotation without markDirty
setRotationKeepsCache(t, v) == [t EXCEPT !.rotation = v]

\* Transform3D.setRotation(x, y, z)
setRotation(t, v) == markDirty([t EXCEPT !.rotation = v])

\* Transform3D.setRotationVec3(rotation): copies the vector
setRotationVec3(t, v) == markDirty([t EXCEPT !.rotation = v])

\* Transform3D.setTranslation(x, y, z)
setTranslation(t, v) == markDirty([t EXCEPT !.translation = v])

\* Transform3D.setTranslationVec3(translation)
setTranslationVec3(t, v) == markDirty([t EXCEPT !.translation = v])

\* Transform3D.setScale(x, y, z)
setScale(t, v) == markDirty([t EXCEPT !.scale = v])

\* Transform3D.setScaleVec3(scale)
setScaleVec3(t, v) == markDirty([t EXCEPT !.scale = v])

\* getModelMatrix(): recomputes when dirty; the transform as the read leaves
\* it, the matrix returned, and whether it was recomputed
getModelMatrix(t) ==
  IF t.isDirty
  THEN [transform |-> updateMatrices(t), result |-> updateMatrices(t).modelMatrix,
        recomputed |-> TRUE]
  ELSE [transform |-> t, result |-> t.modelMatrix, recomputed |-> FALSE]

\* getViewMatrix(): mat4.lookAt(cam, cameraTarget, up)
getViewMatrix(cam) ==
  <<[m |-> "lookAt", eye |-> cam, center |-> <<0, 0, 0>>, up |-> <<0, 1, 0>>]>>

\* getProjectionMatrix(): mat4.perspective(fov, aspect, near, far)
getProjectionMatrix(fov, aspect, near, far) ==
  <<[m |-> "perspective", fov |-> fov, aspect |-> aspect, near |-> near, far |-> far]>>

\* getMVPMatrix with the product taken as model x view x projection
getMVPMatrixReversed(t, cam, fov, aspect, near, far) ==
  [transform |-> getModelMatrix(t).transform,
   recomputed |-> getModelMatrix(t).recomputed,
   result |-> multiply(multiply(getModelMatrix(t).result, getViewMatrix(cam)),
                       getProjectionMatrix(fov, aspect, near, far))]

\* getMVPMatrix(): multiply(mvp, view, model); multiply(mvp, projection, mvp)
getMVPMatrix(t, cam, fov, aspect, near, far) ==
  [transform |-> getModelMatrix(t).transform,
   recomputed |-> getModelMatrix(t).recomputed,
   result |-> multiply(getProjectionMatrix(fov, aspect, near, far),
                       multiply(getViewMatrix(cam), getModelMatrix(t).result))]

\* PerspectiveProjection.updateSettings(): { ...this.settings, ...settings }
updateSettings(pp, settings) == [pp EXCEPT !.settings = settings]

\* ------------------------------------------------------------- rendering
\* is3DActive as a test of each angle against the threshold
is3DActiveAnyAxis(rot) ==
  \E i \in 1..3 : Abs(rot[i]) > RotationEpsilon

\* is3DActive(): vec3.length(globalRotation) > 0.001
is3DActive(rot) ==
  rot[1] * rot[1] + rot[2] * rot[2] + rot[3] * rot[3] > RotationEpsilon * RotationEpsilon

RECURSIVE InsertDesc(_, _, _)
\* position of x in a list sorted by descending zIndex, after its equals
InsertDesc(s, x, zi) ==
  IF s = <<>> THEN <<x>>
  ELSE IF zi[Head(s)] >= zi[x] THEN <<Head(s)>> \o InsertDesc(Tail(s), x, zi)
  ELSE <<x>> \o s

RECURSIVE SortDesc(_, _)
\* the stable sort by (a, b) => b.zIndex - a.zIndex
SortDesc(s, zi) ==
  IF s = <<>> THEN <<>>
  ELSE InsertDesc(SortDesc(SubSeq(s, 1, Len(s) - 1), zi), s[Len(s)], zi)

\* the same sort done in place on this.layers, without the copy
getSortedLayersInPlace(ls, zi) == [sorted |-> SortDesc(ls, zi), layers |-> SortDesc(ls, zi)]

RECURSIVE InsertAsc(_, _, _)
InsertAsc(s, x, zi) ==
  IF s = <<>> THEN <<x>>
  ELSE IF zi[Head(s)] <= zi[x] THEN <<Head(s)>> \o InsertAsc(Tail(s), x, zi)
  ELSE <<x>> \o s

RECURSIVE SortAsc(_, _)
SortAsc(s, zi) ==
  IF s = <<>> THEN <<>>
  ELSE InsertAsc(SortAsc(SubSeq(s, 1, Len(s) - 1), zi), s[Len(s)], zi)

\* the sort with the comparator reversed: a.zIndex - b.zIndex
getSortedLayersAscending(ls, zi) == [sorted |-> SortAsc(ls, zi), layers |-> ls]

\* getSortedLayers(): sorts a copy of this.layers, highest zIndex first;
\* "layers" is this.layers as the call leaves it.
getSortedLayers(ls, zi) == [sorted |-> SortDesc(ls, zi), layers |-> ls]

\* calculateGlobalMVP with the aspect taken as height / width
calculateGlobalMVPInverted(ps, pp, canvas, t3d, cam) ==
  LET ps2 == [ps EXCEPT !.aspect = <<canvas.height, canvas.width>>]
      got == getMVPMatrix(t3d, cam, ps2.fov, ps2.aspect, ps2.near, ps2.far)
  IN [settings |-> ps2, projection |-> updateSettings(pp, ps2),
      transform3D |-> got.transform, mvp |-> got.result]

\* calculateGlobalMVP(): stores the canvas aspect in perspectiveSettings,
\* hands the settings to the projection, and returns the MVP matrix of the
\* global transform.
calculateGlobalMVP(ps, pp, canvas, t3d, cam) ==
  LET ps2 == [ps EXCEPT !.aspect = <<canvas.width, canvas.height>>]
      got == getMVPMatrix(t3d, cam, ps2.fov, ps2.aspect, ps2.near, ps2.far)
  IN [settings |-> ps2, projection |-> updateSettings(pp, ps2),
      transform3D |-> got.transform, mvp |-> got.result]

\* The context calls of apply3DTransformToLayer, in order. Sines and cosines
\* are kept by name with the angle they are taken of; the final scale is
\* clamp(1 - (z / 5) * 0.1, 0.5, 1.2), in thousandths.
TransformOps(rot, z) ==
  <<<<"translate", "center">>, <<"rotate", rot[3]>>>>
  \o (IF Abs(rot[2]) > RotationEpsilon
      THEN <<<<"scale", "abs(cos)", rot[2]>>, <<"skewY", "sin", rot[2]>>,
             <<"translate", "parallaxY", rot[2], z>>>>
      ELSE <<>>)
  \o (IF Abs(rot[1]) > RotationEpsilon
      THEN <<<<"scale", "abs(cos)", rot[1]>>, <<"skewX", "sin", rot[1]>>,
             <<"translate", "parallaxX", rot[1], z>>>>
      ELSE <<>>)
  \o <<<<"scale", "final", Max(500, Min(1200, 1000 - 20 * z))>>,
       <<"translate", "-center">>>>

\* Render state threaded through one pass: the layers' load state, the
\* context, the context calls made (ops), the layers whose render() was
\* called (invoked), the context as it was at each save() (entry), the layers
\* whose error was logged (errors) and whether an exception is propagating.
RECURSIVE ApplyOps(_, _)
ApplyOps(rs, ops) ==
  IF ops = <<>> THEN rs
  ELSE ApplyOps([rs EXCEPT !.ctx = CtxApply(@, Head(ops)), !.ops = Append(@, Head(ops))],
                Tail(ops))

\* apply3DTransformToLayer(): a fault "transform" makes ctx.rotate throw,
\* after the translate to the centre has been applied.
apply3DTransformToLayer(rs, z, rot, fault) ==
  IF fault = "transform"
  THEN [ApplyOps(rs, SubSeq(TransformOps(rot, z), 1, 1)) EXCEPT !.thrown = TRUE]
  ELSE ApplyOps(rs, TransformOps(rot, z))

\* ImageLayer.render(): starts a load when neither loaded nor loading and
\* returns; draws the image when loaded. A fault "paint" makes drawImage throw.
renderImageLayer(rs, L, url, fault) ==
  LET inv == [rs EXCEPT !.invoked = Append(@, L)] IN
  IF ~rs.ls.isLoaded[L]
  THEN IF ~rs.ls.isLoading[L]
       THEN [inv EXCEPT !.ls = loadImage(rs.ls, L, url).ls]
       ELSE inv
  ELSE IF rs.ls.image[L] = 0 THEN inv
  ELSE IF fault = "paint" THEN [inv EXCEPT !.thrown = TRUE]
  ELSE [inv EXCEPT !.ops = Append(@, <<"drawImage", L, rs.ls.image[L]>>)]

ContextSaved(rs) ==
  [rs EXCEPT !.entry = Append(@, rs.ctx), !.ctx = CtxSave(@), !.ops = Append(@, <<"save">>)]

ContextRestored(rs) ==
  [rs EXCEPT !.ctx = CtxRestore(@), !.ops = Append(@, <<"restore">>)]

\* layer.render(...) is reached unless the transform step threw
RenderUnlessThrown(t, L, url, fault) ==
  IF t.thrown THEN t ELSE renderImageLayer(t, L, url, fault)

\* the try block of renderLayerWith3D
renderLayerTry(rs, L, active, z, rot, url, fault) ==
  RenderUnlessThrown(IF active THEN apply3DTransformToLayer(rs, z, rot, fault) ELSE rs,
                     L, url, fault)

\* the catch block of renderLayerWith3D: logs the error, which ends there
LogError(t, L) ==
  IF t.thrown THEN [t EXCEPT !.thrown = FALSE, !.errors = Append(@, L)] ELSE t

\* restore() as the last statement of the try block: skipped by a throw
RestoreUnlessThrown(t) == IF t.thrown THEN t ELSE ContextRestored(t)

\* renderLayerWith3D without its catch block: try { ... } finally { restore }
renderLayerWith3DNoCatch(rs, L, active, z, rot, url, fault) ==
  ContextRestored(renderLayerTry(ContextSaved(rs), L, active, z, rot, url, fault))

\* renderLayerWith3D with restore() at the end of the try block instead of
\* in a finally block
renderLayerWith3DNoFinally(rs, L, active, z, rot, url, fault) ==
  LogError(RestoreUnlessThrown(
             renderLayerTry(ContextSaved(rs), L, active, z, rot, url, fault)), L)

\* renderLayerWith3D(): save; try { transform; layer.render } catch { log }
\* finally { restore }
renderLayerWith3D(rs, L, active, z, rot, url, fault) ==
  ContextRestored(LogError(
    renderLayerTry(ContextSaved(rs), L, active, z, rot, url, fault), L))

RECURSIVE RenderLoop(_, _, _, _, _, _, _)
\* for (const layer of sortedLayers): ends early when an exception propagates
RenderLoop(rs, sorted, active, zp, rot, url, faults) ==
  IF sorted = <<>> \/ rs.thrown THEN rs
  ELSE RenderLoop(renderLayerWith3D(rs, Head(sorted), active, zp[Head(sorted)], rot,
                                    url[Head(sorted)], faults[Head(sorted)]),
                  Tail(sorted), active, zp, rot, url, faults)

\* the state a pass leaves, and what it did (out)
RenderOutcome(st, active, g, srt, rs) ==
  [st EXCEPT !.ls = rs.ls, !.mainContext = rs.ctx, !.layers = srt.layers,
             !.perspectiveSettings = IF active THEN g.settings ELSE @,
             !.perspectiveProjection = IF active THEN g.projection ELSE @,
             !.transform3D = IF active THEN g.transform3D ELSE @,
             !.out = [ops |-> rs.ops, invoked |-> rs.invoked, entry |-> rs.entry,
                      active |-> active,
                      errors |-> rs.errors, threw |-> rs.thrown,
                      mvp |-> IF active THEN g.mvp ELSE "undefined"]]

\* the pass once the MVP is computed and the layers are sorted
RenderSorted(st, active, g, srt, faults) ==
  RenderOutcome(st, active, g, srt,
    RenderLoop([ls |-> st.ls, ctx |-> st.mainContext,
                ops |-> <<<<"clearRect", st.mainCanvas.width, st.mainCanvas.height>>>>,
                invoked |-> <<>>, entry |-> <<>>, errors |-> <<>>, thrown |-> FALSE],
               srt.sorted, active, st.zPosition, st.globalRotation, st.imageUrl, faults))

\* renderAllLayers(): the whole pass over state st, with the given faults
renderAllLayers(st, faults) ==
  RenderSorted(st, is3DActive(st.globalRotation),
               calculateGlobalMVP(st.perspectiveSettings, st.perspectiveProjection,
                                  st.mainCanvas, st.transform3D, st.cameraPosition),
               getSortedLayers(st.layers, st.zIndex), faults)

\* The controller and its layers as one value.
State ==
  [layers |-> layers, zIndex |-> zIndex, zPosition |-> zPosition,
   imageUrl |-> imageUrl, ls |-> LayerState, globalRotation |-> globalRotation,
   cameraPosition |-> cameraPosition, perspectiveSettings |-> perspectiveSettings,
   perspectiveProjection |-> perspectiveProjection, transform3D |-> transform3D,
   mainCanvas |-> mainCanvas, mainContext |-> mainContext, out |-> "none"]

NoFaults == [L \in LayerIds |-> "none"]

\* The faults that can happen in a pass: only a layer of the set is rendered,
\* the transform step runs only when 3D is active, and drawImage is called
\* only for a layer that is loaded.
PossibleFaults ==
  {f \in [LayerIds -> Faults] :
     \A L \in LayerIds :
        /\ f[L] # "none" => Contains(layers, L)
        /\ f[L] = "transform" => is3DActive(globalRotation)
        /\ f[L] = "paint" => isLoaded[L] /\ image[L] # 0}

\* controller.render()
Render(faults) ==
  \E r \in {renderAllLayers(State, faults)} :
    /\ Len(r.ls.images) <= MaxImages
    /\ layers' = r.layers
    /\ SetLayerState(r.ls)
    /\ mainContext' = r.mainContext
    /\ perspectiveSettings' = r.perspectiveSettings
    /\ globalRotation' = r.globalRotation
    /\ cameraPosition' = r.cameraPosition
    /\ perspectiveProjection' = r.perspectiveProjection
    /\ transform3D' = r.transform3D
    /\ lastRender' = [called |-> TRUE, faults |-> faults, before |-> State,
                      out |-> r.out]
    /\ settled' = {}
    /\ lastCall' = NoCall
    /\ UNCHANGED <<zIndex, zPosition, imageUrl, calls, nCalls, mainCanvas,
                   containerChildren, utilVars>>

\* layer.render(ctx, []) called on the layer itself, outside a controller pass
LayerRender(L) ==
  /\ \E r \in {renderImageLayer([ls |-> LayerState, ops |-> <<>>, invoked |-> <<>>,
                                  thrown |-> FALSE], L, imageUrl[L], "none")} :
       /\ Len(r.ls.images) <= MaxImages
       /\ SetLayerState(r.ls)
       /\ lastCall' = [op |-> "layerRender", layer |-> L, ops |-> r.ops]
  /\ settled' = {}
  /\ lastRender' = NoRender
  /\ UNCHANGED <<layers, zIndex, zPosition, imageUrl, calls, nCalls, viewVars,
                 mainContext, utilVars>>

\* controller.setRotation(x, y, z)
SetRotation(r) ==
  /\ globalRotation' = r
  /\ transform3D' = setRotation(transform3D, r)
  /\ settled' = {}
  /\ lastRender' = NoRender
  /\ lastCall' = [op |-> "setRotation", rotation |-> r]
  /\ UNCHANGED <<layers, layerVars, calls, nCalls, cameraPosition,
                 perspectiveSettings, mainCanvas, containerChildren,
                 perspectiveProjection, mainContext, utilVars>>

\* controller.setRotationVec3(rotation)
SetRotationVec3(r) ==
  /\ globalRotation' = r
  /\ transform3D' = setRotationVec3(transform3D, r)
  /\ settled' = {}
  /\ lastRender' = NoRender
  /\ lastCall' = [op |-> "setRotationVec3", rotation |-> r]
  /\ UNCHANGED <<layers, layerVars, calls, nCalls, cameraPosition,
                 perspectiveSettings, mainCanvas, containerChildren,
                 perspectiveProjection, mainContext, utilVars>>

\* controller.setPerspective(settings): keeps a copy and hands the settings
\* to the projection
setPerspective(pp, settings) ==
  [settings |-> settings, projection |-> updateSettings(pp, settings)]

SetPerspective(settings) ==
  /\ \E r \in {setPerspective(perspectiveProjection, settings)} :
       /\ perspectiveSettings' = r.settings
       /\ perspectiveProjection' = r.projection
  /\ settled' = {}
  /\ lastRender' = NoRender
  /\ lastCall' = [op |-> "setPerspective", settings |-> settings]
  /\ UNCHANGED <<layers, layerVars, calls, nCalls, globalRotation, cameraPosition,
                 mainCanvas, containerChildren, transform3D, mainContext, utilVars>>

\* controller.setFieldOfView(fovDegrees): fov = fovDegrees * (pi / 180), kept
\* here in units of pi / 180, then the settings go to the projection
setFieldOfView(ps, pp, fovDegrees) ==
  [settings |-> [ps EXCEPT !.fov = fovDegrees],
   projection |-> updateSettings(pp, [ps EXCEPT !.fov = fovDegrees])]

SetFieldOfView(fovDegrees) ==
  /\ \E r \in {setFieldOfView(perspectiveSettings, perspectiveProjection, fovDegrees)} :
       /\ perspectiveSettings' = r.settings
       /\ perspectiveProjection' = r.projection
  /\ settled' = {}
  /\ lastRender' = NoRender
  /\ lastCall' = [op |-> "setFieldOfView", fovDegrees |-> fovDegrees]
  /\ UNCHANGED <<layers, layerVars, calls, nCalls, globalRotation, cameraPosition,
                 mainCanvas, containerChildren, transform3D, mainContext, utilVars>>

\* A call of a setter of the Transform3D object
TransformSet(op, t) ==
  /\ transform3D' = t
  /\ lastCall' = [op |-> op, before |-> transform3D]
  /\ settled' = {}
  /\ lastRender' = NoRender
  /\ UNCHANGED <<layers, layerVars, calls, nCalls, globalRotation, cameraPosition,
                 perspectiveSettings, mainCanvas, containerChildren,
                 perspectiveProjection, mainContext, utilVars>>

TransformSetRotation(v) == TransformSet("Transform3D.setRotation", setRotation(transform3D, v))
TransformSetRotationVec3(v) ==
  TransformSet("Transform3D.setRotationVec3", setRotationVec3(transform3D, v))
TransformSetTranslation(v) ==
  TransformSet("Transform3D.setTranslation", setTranslation(transform3D, v))
TransformSetTranslationVec3(v) ==
  TransformSet("Transform3D.setTranslationVec3", setTranslationVec3(transform3D, v))
TransformSetScale(v) == TransformSet("Transform3D.setScale", setScale(transform3D, v))
TransformSetScaleVec3(v) ==
  TransformSet("Transform3D.setScaleVec3", setScaleVec3(transform3D, v))

\* A read of the Transform3D object: what it returned and whether it recomputed
TransformRead(op, r, args) ==
  /\ transform3D' = r.transform
  /\ lastCall' = [op |-> op, before |-> transform3D, args |-> args,
                  recomputed |-> r.recomputed, result |-> r.result]
  /\ settled' = {}
  /\ lastRender' = NoRender
  /\ UNCHANGED <<layers, layerVars, calls, nCalls, globalRotation, cameraPosition,
                 perspectiveSettings, mainCanvas, containerChildren,
                 perspectiveProjection, mainContext, utilVars>>

GetModelMatrix ==
  TransformRead("Transform3D.getModelMatrix", getModelMatrix(transform3D), <<>>)

GetMVPMatrix(cam, ps) ==
  TransformRead("Transform3D.getMVPMatrix",
                getMVPMatrix(transform3D, cam, ps.fov, ps.aspect, ps.near, ps.far),
                [cameraPosition |-> cam, settings |-> ps])

\* clear() that wipes the canvas and keeps the layer array
clearCanvasOnly(st) ==
  [layers |-> st.layers,
   ops |-> <<<<"clearRect", st.mainCanvas.width, st.mainCanvas.height>>>>]

\* controller.clear(): empties the layer array and wipes the canvas
clear(st) ==
  [layers |-> <<>>,
   ops |-> <<<<"clearRect", st.mainCanvas.width, st.mainCanvas.height>>>>]

Clear ==
  /\ \E r \in {clear(State)} :
       /\ layers' = r.layers
       /\ lastCall' = [op |-> "clear", before |-> layers, ops |-> r.ops,
                       pending |-> {c.layer : c \in {d \in calls : d.awaits # 0}}]
  /\ settled' = {}
  /\ lastRender' = NoRender
  /\ UNCHANGED <<layerVars, calls, nCalls, viewVars, mainContext, utilVars>>

\* setCanvasDimensions without the fallback to 800 x 600
setCanvasDimensionsNoDefault(size) == [width |-> size[1], height |-> size[2]]

\* CanvasFactory.setCanvasDimensions: the container's size, or 800 x 600
setCanvasDimensions(size) ==
  [width |-> IF size[1] = 0 THEN DefaultWidth ELSE size[1],
   height |-> IF size[2] = 0 THEN DefaultHeight ELSE size[2]]

\* PerspectiveProjection.setScreenSize()
setScreenSize(pp, width, height) ==
  [screenWidth |-> width, screenHeight |-> height,
   settings |-> [pp.settings EXCEPT !.aspect = <<width, height>>]]

\* controller.resize(): sizes the canvas to the container as it measures now,
\* tells the projection, and renders
Resize(size, faults) ==
  \E canvas \in {setCanvasDimensions(size)} :
    \E st \in {[State EXCEPT
                  !.mainCanvas = canvas,
                  !.perspectiveProjection =
                     setScreenSize(@, canvas.width, canvas.height)]} :
      \E r \in {renderAllLayers(st, faults)} :
        /\ Len(r.ls.images) <= MaxImages
        /\ mainCanvas' = canvas
        /\ perspectiveProjection' = r.perspectiveProjection
        /\ transform3D' = r.transform3D
        /\ layers' = r.layers
        /\ SetLayerState(r.ls)
        /\ mainContext' = r.mainContext
        /\ perspectiveSettings' = r.perspectiveSettings
        /\ globalRotation' = r.globalRotation
        /\ cameraPosition' = r.cameraPosition
        /\ lastRender' = [called |-> TRUE, faults |-> faults, before |-> st,
                          out |-> r.out]
        /\ lastCall' = [op |-> "resize", size |-> size]
        /\ settled' = {}
        /\ UNCHANGED <<zIndex, zPosition, imageUrl, calls, nCalls, containerChildren,
                       utilVars>>

\* controller.set3DEnabled(enabled): disabling zeroes the rotation, enabling
\* does nothing
\* set3DEnabled that zeroes the controller's rotation vector only
set3DEnabledVectorOnly(rot, t3d, enabled) ==
  IF ~enabled
  THEN [globalRotation |-> <<0, 0, 0>>, transform3D |-> t3d]
  ELSE [globalRotation |-> rot, transform3D |-> t3d]

set3DEnabled(rot, t3d, enabled) ==
  IF ~enabled
  THEN [globalRotation |-> <<0, 0, 0>>, transform3D |-> setRotation(t3d, <<0, 0, 0>>)]
  ELSE [globalRotation |-> rot, transform3D |-> t3d]

Set3DEnabled(enabled) ==
  /\ \E r \in {set3DEnabled(globalRotation, transform3D, enabled)} :
       /\ globalRotation' = r.globalRotation
       /\ transform3D' = r.transform3D
  /\ settled' = {}
  /\ lastRender' = NoRender
  /\ lastCall' = [op |-> "set3DEnabled", enabled |-> enabled, before |-> globalRotation]
  /\ UNCHANGED <<layers, layerVars, calls, nCalls, cameraPosition,
                 perspectiveSettings, mainCanvas, containerChildren,
                 perspectiveProjection, mainContext, utilVars>>

\* ------------------------------------------------------ layer-3d-utils
\* Depths are exact fractions <<numerator, denominator>> in lowest terms with
\* a positive denominator.
RECURSIVE GCD(_, _)
GCD(a, b) == IF b = 0 THEN a ELSE GCD(b, a % b)

Rat(n, d) ==
  LET g == GCD(Abs(n), Abs(d))
      sgn == IF d < 0 THEN -1 ELSE 1
  IN <<(sgn * n) \div g, (sgn * d) \div g>>

RatLess(a, b) == a[1] * b[2] < b[1] * a[2]
RatSub(a, b) == Rat(a[1] * b[2] - b[1] * a[2], a[2] * b[2])
RatAdd(a, b) == Rat(a[1] * b[2] + b[1] * a[2], a[2] * b[2])
RatMul(a, b) == Rat(a[1] * b[1], a[2] * b[2])
RatDiv(a, b) == Rat(a[1] * b[2], a[2] * b[1])
RatAbs(a) == <<Abs(a[1]), a[2]>>
RatMax(a, b) == IF RatLess(a, b) THEN b ELSE a

\* 1.0 + (scale - 1.0) * perspectiveStrength with scale = distance / effectiveZ
BlendedScale(distance, effectiveZ, perspectiveStrength) ==
  RatAdd(<<1, 1>>, RatMul(RatSub(RatDiv(distance, effectiveZ), <<1, 1>>),
                          perspectiveStrength))

\* the utility calculatePerspectiveScale(z, perspectiveStrength, referenceDistance):
\* effectiveZ = Math.max(Math.abs(z), 0.1)
calculatePerspectiveScale(z, perspectiveStrength, referenceDistance) ==
  IF perspectiveStrength = <<0, 1>> THEN <<1, 1>>
  ELSE BlendedScale(referenceDistance, RatMax(RatAbs(z), <<1, 10>>), perspectiveStrength)

RECURSIVE Pow(_, _)
\* Math.pow for a whole exponent
Pow(x, n) == IF n = 0 THEN 1 ELSE x * Pow(x, n - 1)

\* sortedLayers.forEach((layer, index) => layer.setZPosition(depth[index])):
\* a layer keeps the value of the last index it is found at
SetZPositions(zp, sorted, depth) ==
  [L \in DOMAIN zp |->
     IF \E i \in 1..Len(sorted) : sorted[i] = L
     THEN depth[(CHOOSE i \in 1..Len(sorted) :
                   sorted[i] = L /\ \A j \in (i + 1)..Len(sorted) : sorted[j] # L) - 1]
     ELSE zp[L]]

\* autoSetLayerDepths that numbers the layers in the order of the array
autoSetLayerDepthsInsertionOrder(st, arr, depthSpacing, startDepth) ==
  [layers |-> arr,
   stage |-> [st EXCEPT !.zPosition =
                SetZPositions(@, arr,
                  [index \in 0..(Len(arr) - 1) |->
                     Rat(startDepth + index * depthSpacing, 1)])]]

\* autoSetLayerDepths(): sorts a copy by ascending zIndex and gives the layer
\* at index i the depth startDepth + i * depthSpacing
autoSetLayerDepths(st, arr, depthSpacing, startDepth) ==
  [layers |-> arr,
   stage |-> [st EXCEPT !.zPosition =
                SetZPositions(@, SortAsc(arr, st.zIndex),
                  [index \in 0..(Len(arr) - 1) |->
                     Rat(startDepth + index * depthSpacing, 1)])]]

\* createStagingEffect that divides the index by the number of layers
createStagingEffectOverLength(st, arr, maxDepth, curve) ==
  IF Len(arr) <= 1 THEN [layers |-> arr, stage |-> st]
  ELSE [layers |-> arr,
        stage |-> [st EXCEPT !.zPosition =
                     SetZPositions(@, SortAsc(arr, st.zIndex),
                       [index \in 0..(Len(arr) - 1) |->
                          Rat(Pow(index, curve) * maxDepth, Pow(Len(arr), curve))])]]

\* createStagingEffect(): nothing for 0 or 1 layers; otherwise the layer at
\* index i of the copy sorted by ascending zIndex gets
\* Math.pow(i / (N - 1), curve) * maxDepth
createStagingEffect(st, arr, maxDepth, curve) ==
  IF Len(arr) <= 1 THEN [layers |-> arr, stage |-> st]
  ELSE [layers |-> arr,
        stage |-> [st EXCEPT !.zPosition =
                     SetZPositions(@, SortAsc(arr, st.zIndex),
                       [index \in 0..(Len(arr) - 1) |->
                          Rat(Pow(index, curve) * maxDepth, Pow(Len(arr) - 1, curve))])]]

\* calculateDistanceFromCamera(): vec3.distance(cameraPosition, (0, 0, zPosition)),
\* kept as its square
calculateDistanceFromCamera(zp, cam) ==
  RatAdd(Rat(cam[1] * cam[1] + cam[2] * cam[2], 1),
         RatMul(RatSub(Rat(cam[3], 1), zp), RatSub(Rat(cam[3], 1), zp)))

RECURSIVE InsertFarthestFirst(_, _, _)
\* position of x in a list sorted by descending distance, after its equals
InsertFarthestFirst(s, x, dist) ==
  IF s = <<>> THEN <<x>>
  ELSE IF ~RatLess(dist[Head(s)], dist[x])
       THEN <<Head(s)>> \o InsertFarthestFirst(Tail(s), x, dist)
       ELSE <<x>> \o s

RECURSIVE SortFarthestFirst(_, _)
\* the stable sort by (a, b) => bDistance - aDistance
SortFarthestFirst(s, dist) ==
  IF s = <<>> THEN <<>>
  ELSE InsertFarthestFirst(SortFarthestFirst(SubSeq(s, 1, Len(s) - 1), dist),
                           s[Len(s)], dist)

RECURSIVE InsertNearestFirst(_, _, _)
InsertNearestFirst(s, x, dist) ==
  IF s = <<>> THEN <<x>>
  ELSE IF ~RatLess(dist[x], dist[Head(s)])
       THEN <<Head(s)>> \o InsertNearestFirst(Tail(s), x, dist)
       ELSE <<x>> \o s

RECURSIVE SortNearestFirst(_, _)
SortNearestFirst(s, dist) ==
  IF s = <<>> THEN <<>>
  ELSE InsertNearestFirst(SortNearestFirst(SubSeq(s, 1, Len(s) - 1), dist),
                          s[Len(s)], dist)

\* the distance of every layer of the stage from the camera
Distances(st, cam) ==
  [L \in DOMAIN st.zPosition |-> calculateDistanceFromCamera(st.zPosition[L], cam)]

\* sortLayersByDepth with the comparator aDistance - bDistance
sortLayersByDepthNearestFirst(st, arr, cam) ==
  [layers |-> arr, stage |-> st, result |-> SortNearestFirst(arr, Distances(st, cam))]

\* sortLayersByDepth(): a sorted copy, farthest from the camera first
sortLayersByDepth(st, arr, cam) ==
  [layers |-> arr, stage |-> st, result |-> SortFarthestFirst(arr, Distances(st, cam))]

\* LayerBase.setZPosition(): sets the depth
setZPosition(st, L, z) == [st EXCEPT !.zPosition[L] = z]

\* LayerBase.updateTransform3D(): transform3D.setTranslation(0, 0, zPosition)
updateTransform3D(st, L) ==
  [st EXCEPT !.transform3D[L] = setTranslation(@, <<<<0, 1>>, <<0, 1>>, st.zPosition[L]>>)]

\* the transform a new layer gets from the LayerBase constructor, its
\* numbers written as fractions like the depths of the stage
newLayerTransform3D ==
  Transform3D(<<<<0, 1>>, <<0, 1>>, <<0, 1>>>>, <<<<0, 1>>, <<0, 1>>, <<0, 1>>>>,
              <<<<1, 1>>, <<1, 1>>, <<1, 1>>>>)

SetZPosition(L, z) ==
  /\ lastUtil = NoUtil
  /\ stage' = setZPosition(stage, L, Rat(z, 1))
  /\ lastUtil' = [fn |-> "setZPosition", layer |-> L, before |-> stage, zPosition |-> z]
  /\ UNCHANGED controllerVars

UpdateTransform3D(L) ==
  /\ lastUtil = NoUtil
  /\ stage' = updateTransform3D(stage, L)
  /\ lastUtil' = [fn |-> "updateTransform3D", layer |-> L, before |-> stage]
  /\ UNCHANGED controllerVars

\* the arrays of layers a client can hand to a utility: no layer twice
LayerArrays ==
  {a \in UNION {[1..n -> StageLayers] : n \in 0..Cardinality(StageLayers)} :
     \A i, j \in 1..Len(a) : i # j => a[i] # a[j]}

AutoSetLayerDepths(arr, depthSpacing, startDepth) ==
  /\ lastUtil = NoUtil
  /\ \E r \in {autoSetLayerDepths(stage, arr, depthSpacing, startDepth)} :
       /\ stage' = r.stage
       /\ lastUtil' = [fn |-> "autoSetLayerDepths", layers |-> arr, before |-> stage,
                       depthSpacing |-> depthSpacing, startDepth |-> startDepth,
                       array |-> r.layers]
  /\ UNCHANGED controllerVars

CreateStagingEffect(arr, maxDepth, curve) ==
  /\ lastUtil = NoUtil
  /\ \E r \in {createStagingEffect(stage, arr, maxDepth, curve)} :
       /\ stage' = r.stage
       /\ lastUtil' = [fn |-> "createStagingEffect", layers |-> arr, before |-> stage,
                       maxDepth |-> maxDepth, curve |-> curve, array |-> r.layers]
  /\ UNCHANGED controllerVars

SortLayersByDepth(arr, cam) ==
  /\ lastUtil = NoUtil
  /\ \E r \in {sortLayersByDepth(stage, arr, cam)} :
       /\ stage' = r.stage
       /\ lastUtil' = [fn |-> "sortLayersByDepth", layers |-> arr, before |-> stage,
                       cameraPosition |-> cam, array |-> r.layers, result |-> r.result]
  /\ UNCHANGED controllerVars

\* ------------------------------------------------- PerspectiveProjection
\* vec4.transformMat4(out, a, m), with m given by its rows
transformMat4(a, m) ==
  [r \in 1..4 |-> m[r][1] * a[1] + m[r][2] * a[2] + m[r][3] * a[3] + m[r][4] * a[4]]

\* the null that project3DTo2D returns for a point that is not visible
null == <<>>

\* project3DTo2D(): null when w is 0 or the normalized z is outside [-1, 1],
\* otherwise the screen position <<x, y>>
project3DTo2D(pp, point3D, mvpMatrix) ==
  LET projected == transformMat4(<<point3D[1], point3D[2], point3D[3], 1>>, mvpMatrix) IN
  IF projected[4] = 0 THEN null
  ELSE LET ndcX == Rat(projected[1], projected[4])
           ndcY == Rat(projected[2], projected[4])
           ndcZ == Rat(projected[3], projected[4])
       IN IF RatLess(ndcZ, <<-1, 1>>) \/ RatLess(<<1, 1>>, ndcZ) THEN null
          ELSE <<RatMul(RatMul(RatAdd(ndcX, <<1, 1>>), <<1, 2>>), <<pp.screenWidth, 1>>),
                 RatMul(RatMul(RatSub(<<1, 1>>, ndcY), <<1, 2>>), <<pp.screenHeight, 1>>)>>

\* projectPoints3DTo2D that drops the points that are not visible
projectPoints3DTo2DVisibleOnly(pp, points3D, mvpMatrix) ==
  SelectSeq([i \in 1..Len(points3D) |-> project3DTo2D(pp, points3D[i], mvpMatrix)],
            LAMBDA p : p # null)

\* projectPoints3DTo2D(): points3D.map(point => project3DTo2D(point, mvpMatrix))
projectPoints3DTo2D(pp, points3D, mvpMatrix) ==
  [i \in 1..Len(points3D) |-> project3DTo2D(pp, points3D[i], mvpMatrix)]

\* PerspectiveProjection.calculatePerspectiveScale(z, perspectiveStrength):
\* effectiveZ = Math.max(z, 0.1), baseDistance = 5.0
projectorCalculatePerspectiveScale(z, perspectiveStrength) ==
  IF perspectiveStrength = <<0, 1>> THEN <<1, 1>>
  ELSE BlendedScale(<<DefaultReferenceDistance, 1>>, RatMax(z, <<1, 10>>),
                    perspectiveStrength)

\* both perspective scale functions called on the same z and strength
CalculatePerspectiveScale(z, perspectiveStrength) ==
  /\ lastUtil = NoUtil
  /\ lastUtil' = [fn |-> "calculatePerspectiveScale", z |-> z,
                  perspectiveStrength |-> perspectiveStrength,
                  utility |-> calculatePerspectiveScale(
                                z, perspectiveStrength, <<DefaultReferenceDistance, 1>>),
                  projector |-> projectorCalculatePerspectiveScale(z, perspectiveStrength)]
  /\ UNCHANGED <<controllerVars, stage>>

\* ImageLayer.get3DVertices(): the corners of the plane (+-1, +-1, zPosition)
get3DVertices(z) == <<<<-1, -1, z>>, <<1, -1, z>>, <<1, 1, z>>, <<-1, 1, z>>>>

\* clipLayerToBounds(): keeps the vertices whose x and y, as given, lie in
\* the bounds widened by the margin
clipLayerToBounds(vertices, canvasBounds, margin) ==
  SelectSeq(vertices,
            LAMBDA vertex : /\ vertex[1] >= canvasBounds.left - margin
                            /\ vertex[1] <= canvasBounds.right + margin
                            /\ vertex[2] >= canvasBounds.top - margin
                            /\ vertex[2] <= canvasBounds.bottom + margin)

\* isLayerOutsideBounds(): clips layer.get3DVertices() and tests for none left
isLayerOutsideBounds(z, canvasBounds, margin) ==
  Len(clipLayerToBounds(get3DVertices(z), canvasBounds, margin)) = 0

\* isLayerOutsideBounds called for a layer at depth z in a pass whose MVP
\* matrix is mvpMatrix
IsLayerOutsideBounds(z, canvasBounds, margin, mvpMatrix) ==
  /\ lastUtil = NoUtil
  /\ lastUtil' = [fn |-> "isLayerOutsideBounds", zPosition |-> z,
                  canvasBounds |-> canvasBounds, margin |-> margin,
                  mvpMatrix |-> mvpMatrix,
                  result |-> isLayerOutsideBounds(z, canvasBounds, margin)]
  /\ UNCHANGED <<controllerVars, stage>>

PointArrays == UNION {[1..n -> Points3D] : n \in 0..MaxPoints}

ProjectPoints3DTo2D(points3D, mvpMatrix) ==
  /\ lastUtil = NoUtil
  /\ lastUtil' = [fn |-> "projectPoints3DTo2D", points |-> points3D, mvp |-> mvpMatrix,
                  result |-> projectPoints3DTo2D(perspectiveProjection, points3D,
                                                 mvpMatrix)]
  /\ UNCHANGED <<controllerVars, stage>>

\* ------------------------------------------------------------ specification
\* PerspectiveProjection.createDefaultSettings(): aspect defaults to 1.0
createDefaultSettings ==
  [fov |-> DefaultFovDegrees, aspect |-> <<1, 1>>, near |-> DefaultNearTenths,
   far |-> DefaultFar]

\* new PerspectiveProjection(settings, clientWidth || 800, clientHeight || 600)
newPerspectiveProjection(settings, size) ==
  [screenWidth |-> IF size[1] = 0 THEN DefaultWidth ELSE size[1],
   screenHeight |-> IF size[2] = 0 THEN DefaultHeight ELSE size[2],
   settings |-> settings]

\* new DioramaController(container) on a container measuring size, and the
\* ImageLayer instances the client has created
InitController(size) ==
  /\ layers = <<>>
  /\ zIndex \in {z \in [LayerIds -> ZIndices] :
                   \A L \in LayerIds : L + 1 \in LayerIds => z[L] <= z[L + 1]}
  /\ zPosition = [L \in LayerIds |-> 0]
  /\ imageUrl = [L \in LayerIds |-> "a"]
  /\ image = [L \in LayerIds |-> 0]
  /\ isLoaded = [L \in LayerIds |-> FALSE]
  /\ isLoading = [L \in LayerIds |-> FALSE]
  /\ images = <<>>
  /\ calls = {}
  /\ settled = {}
  /\ nCalls = 0
  /\ globalRotation = <<0, 0, 0>>
  /\ cameraPosition = <<0, 0, DefaultCameraZ>>
  /\ perspectiveSettings = createDefaultSettings
  /\ perspectiveProjection = newPerspectiveProjection(createDefaultSettings, size)
  /\ transform3D = newTransform3D
  /\ mainCanvas = setCanvasDimensions(size)
  /\ containerChildren = 1
  /\ mainContext = IdentityContext
  /\ lastRender = NoRender
  /\ lastCall = [op |-> "constructor", size |-> size]

Init ==
  /\ \E size \in ContainerSizes : InitController(size)
  /\ stage = NoStage
  /\ lastUtil = NoUtil

Next ==
  \/ \E L \in LayerIds : AddLayer(L)
  \/ \E L \in LayerIds : Load(L)
  \/ \E L \in LayerIds, u \in Urls : UpdateImage(L, u)
  \/ \E L \in LayerIds : RemoveLayer(L)
  \/ Clear
  \/ \E i \in 1..MaxImages, ok \in BOOLEAN : FetchComplete(i, ok)
  \/ RunMicrotasks
  \/ \E f \in PossibleFaults : Render(f)
  \/ \E r \in RotationValues : SetRotation(r)

Spec == Init /\ [][Next]_vars

\* A client that holds image layers and drives them itself: load(), render(),
\* updateImage(), and the fetches ending in either way.
NextImage ==
  \/ \E L \in LayerIds : Load(L)
  \/ \E L \in LayerIds, u \in Urls : UpdateImage(L, u)
  \/ \E L \in LayerIds : LayerRender(L)
  \/ \E i \in 1..MaxImages, ok \in BOOLEAN : FetchComplete(i, ok)
  \/ RunMicrotasks

SpecImage == Init /\ [][NextImage]_vars

\* A client that holds a Transform3D and sets and reads it.
NextTransform ==
  \/ \E v \in TransformVectors : TransformSetRotation(v)
  \/ \E v \in TransformVectors : TransformSetRotationVec3(v)
  \/ \E v \in TransformVectors : TransformSetTranslation(v)
  \/ \E v \in TransformVectors : TransformSetTranslationVec3(v)
  \/ \E v \in TransformVectors : TransformSetScale(v)
  \/ \E v \in TransformVectors : TransformSetScaleVec3(v)
  \/ GetModelMatrix
  \/ \E cam \in CameraPositions, ps \in PerspectiveSettingsValues : GetMVPMatrix(cam, ps)

SpecTransform == Init /\ [][NextTransform]_vars

\* A client that configures the 3D view of a controller without layers.
InitSettings ==
  /\ \E size \in MeasuredSizes : InitController(size)
  /\ zIndex = [L \in LayerIds |-> 0]
  /\ stage = NoStage
  /\ lastUtil = NoUtil

NextSettings ==
  \/ \E r \in ViewRotations : SetRotation(r)
  \/ \E r \in ViewRotations : SetRotationVec3(r)
  \/ \E enabled \in BOOLEAN : Set3DEnabled(enabled)
  \/ \E settings \in PerspectiveSettingsValues : SetPerspective(settings)
  \/ \E deg \in FovDegrees : SetFieldOfView(deg)
  \/ \E size \in MeasuredSizes : Resize(size, NoFaults)
  \/ Render(NoFaults)

SpecSettings == InitSettings /\ [][NextSettings]_vars

\* A client that drives the layers through the controller alone.
NextController ==
  \/ \E L \in LayerIds : AddLayer(L)
  \/ \E L \in LayerIds : RemoveLayer(L)
  \/ Clear
  \/ \E i \in 1..MaxImages, ok \in BOOLEAN : FetchComplete(i, ok)
  \/ RunMicrotasks
  \/ \E f \in PossibleFaults : Render(f)
  \/ \E r \in RotationValues : SetRotation(r)

SpecController == Init /\ [][NextController]_vars

\* A client that uses the whole controller interface on a container whose
\* measured size changes.
InitView ==
  /\ \E size \in MeasuredSizes : InitController(size)
  /\ stage = NoStage
  /\ lastUtil = NoUtil

NextView ==
  \/ \E L \in LayerIds : AddLayer(L)
  \/ \E i \in 1..MaxImages, ok \in BOOLEAN : FetchComplete(i, ok)
  \/ RunMicrotasks
  \/ Render(NoFaults)
  \/ \E size \in MeasuredSizes : Resize(size, NoFaults)
  \/ \E r \in ViewRotations : SetRotation(r)
  \/ \E enabled \in BOOLEAN : Set3DEnabled(enabled)

SpecView == InitView /\ [][NextView]_vars

\* A client that creates three layers and calls one layer-3d utility on an
\* array of them.
InitStage ==
  /\ InitController(<<0, 0>>)
  /\ zIndex = [L \in LayerIds |-> 0]
  /\ stage \in {[zIndex |-> zi, zPosition |-> [L \in StageLayers |-> Rat(zp[L], 1)],
                 transform3D |-> [L \in StageLayers |-> newLayerTransform3D]] :
                  zi \in [StageLayers -> StageZIndices],
                  zp \in [StageLayers -> StageDepths]}
  /\ lastUtil = NoUtil

NextStage ==
  \/ \E arr \in LayerArrays, sp \in DepthSpacings, st \in StartDepths :
       AutoSetLayerDepths(arr, sp, st)
  \/ \E arr \in LayerArrays, md \in MaxDepths, c \in Curves :
       CreateStagingEffect(arr, md, c)
  \/ \E arr \in LayerArrays, cam \in CameraPositions : SortLayersByDepth(arr, cam)
  \/ \E L \in StageLayers, z \in StageDepths : SetZPosition(L, z)
  \/ \E L \in StageLayers : UpdateTransform3D(L)

SpecStage == InitStage /\ [][NextStage]_vars

\* A client that projects an array of points through a projection whose
\* screen has the size of the container.
InitProjection ==
  /\ \E size \in MeasuredSizes : InitController(size)
  /\ zIndex = [L \in LayerIds |-> 0]
  /\ stage = NoStage
  /\ lastUtil = NoUtil

NextProjection ==
  \/ \E points3D \in PointArrays, mvpMatrix \in MvpMatrices :
       ProjectPoints3DTo2D(points3D, mvpMatrix)
  \/ \E z \in ScaleDepths, strength \in Strengths : CalculatePerspectiveScale(z, strength)
  \/ \E z \in LayerDepths, b \in CanvasBounds, m \in Margins, mvp \in MvpMatrices :
       IsLayerOutsideBounds(z, b, m, mvp)

SpecProjection == InitProjection /\ [][NextProjection]_vars

\* ------------------------------------------------------------------ claims
AddLayerSettled == {s \in settled : s.kind = "addLayer"}
Complete(i) == i # 0 /\ images[i].state = "complete"

\* C1: when the load of a layer fails, the promise of addLayer(L) rejects with
\* the error of that load, and from that moment getLayers() does not contain L,
\* whatever render, removeLayer and addLayer calls were made while it was pending.
C1_FailedAddLayerLeavesNoLayer ==
  /\ \A c \in calls : c.awaits # 0 => images[c.awaits].state = "fetching"
  /\ \A s \in AddLayerSettled :
       s.outcome = "rejected" =>
         /\ images[s.error.img].state = "broken"
         /\ ~Contains(layers, s.layer)

\* C2: when the promise of addLayer(L) resolves, the load of L has completed
\* successfully, also when a load of L was in flight when addLayer was called.
C2_AddLayerResolvesLoaded ==
  \A s \in AddLayerSettled :
     s.outcome = "resolved" => isLoaded[s.layer] /\ Complete(image[s.layer])

\* C3: at most one image fetch is in flight for a layer at any time.
C3_OneFetchPerLayer ==
  \A L \in LayerIds : Cardinality(InFlight(images, L)) <= 1

\* C4: a load() call made while a load of the layer is in flight starts no
\* fetch, resolves only once the pending load has succeeded, and rejects if
\* the pending load fails.
C4_RepeatLoadSharesOutcome ==
  /\ \A c \in calls : c.kind = "load" /\ c.joined # {} => ~c.started
  /\ \A s \in settled :
       s.kind = "load" /\ s.joined # {} =>
         /\ ~s.started
         /\ s.outcome = "resolved" => \A i \in s.joined : images[i].state = "complete"
         /\ s.outcome = "rejected" => \E i \in s.joined : images[i].state = "broken"

\* ------------------------------------------------------ render() claims
\* lastRender.before is the state render() was called in, State the one it left.
Rendered == lastRender.called
Before == lastRender.before
Out == lastRender.out
ErrorLayers == {Out.errors[i] : i \in 1..Len(Out.errors)}
Without(s, S) == SelectSeq(s, LAMBDA x : x \notin S)
DrawsOf(ops, L) == Len(SelectSeq(ops, LAMBDA op : op[1] = "drawImage" /\ op[2] = L))
TimesIn(s, L) == Len(SelectSeq(s, LAMBDA x : x = L))

\* lifecycle state of a layer: loaded and loading are its flags; with both
\* flags down it is failed when the Image it holds is broken, else unloaded
Lifecycle(ls, L) ==
  IF ls.isLoaded[L] THEN "loaded"
  ELSE IF ls.isLoading[L] THEN "loading"
  ELSE IF ls.image[L] # 0 /\ ls.images[ls.image[L]].state = "broken" THEN "failed"
  ELSE "unloaded"

\* the load of the layer has succeeded: it holds a completely fetched image
LoadSucceeded(ls, L) ==
  ls.isLoaded[L] /\ ls.image[L] # 0 /\ ls.images[ls.image[L]].state = "complete"

\* C5: when the paint of a layer, or the transform step applied for it, throws
\* during render(), render() does not throw and every other layer still has
\* its paint invoked in that pass, in the order of a pass without errors.
C5_PaintErrorIsolated ==
  Rendered =>
    /\ ~Out.threw
    /\ \A ref \in {renderAllLayers(Before, NoFaults).out.invoked} :
         Without(Out.invoked, ErrorLayers) = Without(ref, ErrorLayers)

\* a pass in which the first layer threw and a later layer was still painted
C5_Witness ==
  /\ Rendered
  /\ Len(Out.errors) >= 1
  /\ Len(Out.invoked) >= 1
  /\ Out.invoked[Len(Out.invoked)] \notin ErrorLayers
  /\ zIndex[Out.invoked[Len(Out.invoked)]] < zIndex[Out.errors[1]]

RECURSIVE Bracketed(_, _)
\* every save has its restore, and every other context call is made exactly
\* one level inside a save
Bracketed(ops, depth) ==
  IF ops = <<>> THEN depth = 0
  ELSE CASE Head(ops)[1] = "clearRect" -> depth = 0 /\ Bracketed(Tail(ops), depth)
         [] Head(ops)[1] = "save" -> Bracketed(Tail(ops), depth + 1)
         [] Head(ops)[1] = "restore" -> depth > 0 /\ Bracketed(Tail(ops), depth - 1)
         [] OTHER -> depth = 1 /\ Bracketed(Tail(ops), depth)

\* C6: in render() every layer's paint runs between a save and its matching
\* restore: the context and its stack of saved states are after render() as
\* before it, and every layer starts from that same context state, whether or
\* not an earlier paint threw and whether or not 3D is active.
C6_SaveRestoreBalanced ==
  Rendered =>
    /\ mainContext = Before.mainContext
    /\ Bracketed(Out.ops, 0)
    /\ Len(Out.entry) = Len(Before.layers)
    /\ \A i \in 1..Len(Out.entry) : Out.entry[i] = Before.mainContext

\* a 3D-active pass over two entries in which the transform or paint of one threw
C6_Witness ==
  /\ Rendered
  /\ is3DActive(globalRotation)
  /\ Len(Out.entry) >= 2
  /\ Len(Out.errors) >= 1

\* C7: render() on a layer that is unloaded or loading does not throw and
\* paints nothing for it; it starts exactly one load when none is in flight
\* and none when one is; once the load has succeeded the next render() paints
\* the layer exactly once (per call of the layer's render).
C7_RenderBeforeLoadSelfHeals ==
  Rendered =>
    /\ ~Out.threw
    /\ \A L \in LayerIds :
         TimesIn(Out.invoked, L) > 0 =>
           /\ ~LoadSucceeded(Before.ls, L) =>
                /\ DrawsOf(Out.ops, L) = 0
                /\ L \notin ErrorLayers
                /\ InFlight(Before.ls.images, L) = {}
                     => Cardinality(InFlight(images, L)) = 1
                /\ InFlight(Before.ls.images, L) # {}
                     => InFlight(images, L) = InFlight(Before.ls.images, L)
           /\ LoadSucceeded(Before.ls, L) /\ lastRender.faults[L] = "none" =>
                DrawsOf(Out.ops, L) = TimesIn(Out.invoked, L)

AspectEq(a, b) == a[1] * b[2] = b[1] * a[2]

\* C8 as stated: render() changes nothing but the surface (layer set, every
\* lifecycle state, rotation, camera, fov, aspect, near and far stay as they
\* were), and a second render() right after it issues the same operations.
C8_RenderChangesNothing ==
  Rendered =>
    /\ layers = Before.layers
    /\ \A L \in LayerIds : Lifecycle(LayerState, L) = Lifecycle(Before.ls, L)
    /\ globalRotation = Before.globalRotation
    /\ cameraPosition = Before.cameraPosition
    /\ perspectiveSettings.fov = Before.perspectiveSettings.fov
    /\ perspectiveSettings.near = Before.perspectiveSettings.near
    /\ perspectiveSettings.far = Before.perspectiveSettings.far
    /\ AspectEq(perspectiveSettings.aspect, Before.perspectiveSettings.aspect)
    /\ \A again \in {renderAllLayers(State, lastRender.faults).out.ops} : again = Out.ops

\* C8 amended: render() leaves the layer set, the rotation, the camera, fov,
\* near and far as they were; the only lifecycle change is that a layer whose
\* render was invoked (a layer of the set whose transform step did not throw)
\* and that is neither loaded nor loading becomes loading; the aspect becomes
\* canvas width / height when 3D is active and is untouched otherwise; and a
\* second render() right after it (same faults, no load completing in
\* between) issues the same operations.
C8_RenderSideEffects ==
  Rendered =>
    /\ layers = Before.layers
    /\ \A L \in LayerIds :
         Lifecycle(LayerState, L) =
           IF TimesIn(Out.invoked, L) > 0 /\ Lifecycle(Before.ls, L) \in {"unloaded", "failed"}
           THEN "loading" ELSE Lifecycle(Before.ls, L)
    /\ globalRotation = Before.globalRotation
    /\ cameraPosition = Before.cameraPosition
    /\ perspectiveSettings.fov = Before.perspectiveSettings.fov
    /\ perspectiveSettings.near = Before.perspectiveSettings.near
    /\ perspectiveSettings.far = Before.perspectiveSettings.far
    /\ perspectiveSettings.aspect =
         IF is3DActive(Before.globalRotation)
         THEN <<Before.mainCanvas.width, Before.mainCanvas.height>>
         ELSE Before.perspectiveSettings.aspect
    /\ \A again \in {renderAllLayers(State, lastRender.faults).out.ops} : again = Out.ops

\* a 3D-active pass that changed the aspect and restarted the load of a layer
\* whose earlier load had failed
C8_Witness ==
  /\ Rendered
  /\ is3DActive(globalRotation)
  /\ perspectiveSettings.aspect # Before.perspectiveSettings.aspect
  /\ \E L \in LayerIds : Lifecycle(Before.ls, L) = "failed" /\ isLoading[L]

\* C9: render() never adds, removes or reorders layers, whatever the load
\* states and whether or not a paint throws.
C9_RenderKeepsLayers ==
  Rendered => layers = Before.layers

\* a pass over a set whose insertion order is not its paint order, with an error
C9_Witness ==
  /\ Rendered
  /\ Len(layers) >= 2
  /\ layers # Out.invoked
  /\ Len(Out.invoked) = Len(layers)
  /\ Len(Out.errors) >= 1

C11_RemoveLayerRemoves ==
  lastCall.op = "removeLayer" =>
    /\ ~Contains(layers, lastCall.layer)
    /\ layers = Without(lastCall.before, {lastCall.layer})

\* C12: after clear() the layer set is empty and the whole surface has been
\* wiped, and the set stays empty until the next addLayer call: no load that
\* completes or fails puts a layer back.
C12_ClearEmptiesUntilAdd ==
  /\ [](lastCall.op = "clear" =>
         /\ layers = <<>>
         /\ mainContext = IdentityContext
         /\ lastCall.ops = <<<<"clearRect", mainCanvas.width, mainCanvas.height>>>>)
  /\ [][layers = <<>> /\ layers' # <<>> =>
         \E c \in calls' \ calls : c.kind = "addLayer" /\ layers' = <<c.layer>>]_vars

\* clear() was called on a non-empty set while the load of a layer was in flight
C12_Witness ==
  /\ lastCall.op = "clear"
  /\ lastCall.before # <<>>
  /\ \E c \in calls : c.kind = "addLayer" /\ c.awaits # 0
                         /\ images[c.awaits].state = "fetching"
                         /\ Contains(lastCall.before, c.layer)

\* C13: when a layer is no longer in the set, the completion or failure of
\* the load started by its addLayer does not re-add it and rejects no promise
\* of addLayer.
C13_OrphanLoadIsSilent ==
  [][\A L \in LayerIds :
       ~Contains(layers, L) /\ nCalls' = nCalls =>
         /\ ~Contains(layers', L)
         /\ \A s \in settled' :
              s.kind = "addLayer" /\ s.layer = L => s.outcome # "rejected"]_vars

\* C14: the container has as many canvas children as the compositor holds layers.
C14_OneCanvasPerLayer ==
  containerChildren = Len(layers)

\* C15: after construction and after every resize() the canvas is as wide as
\* the container measures, or 800 when it measures 0 wide, and as high as it
\* measures, or 600 when it measures 0 high; width and height are positive in
\* every state; and the render() that resize() ends with does not throw and,
\* when 3D is active, uses the aspect width / height of that canvas.
C15_SurfaceSized ==
  /\ mainCanvas.width > 0
  /\ mainCanvas.height > 0
  /\ lastCall.op \in {"constructor", "resize"} =>
       /\ mainCanvas.width = IF lastCall.size[1] = 0 THEN 800 ELSE lastCall.size[1]
       /\ mainCanvas.height = IF lastCall.size[2] = 0 THEN 600 ELSE lastCall.size[2]
  /\ lastCall.op = "resize" =>
       /\ Rendered
       /\ ~Out.threw
       /\ Before.mainCanvas = mainCanvas
       /\ Out.active => Out.mvp[1].aspect = <<mainCanvas.width, mainCanvas.height>>
  /\ Rendered => ~Out.threw

\* a resize() on a container measuring 0 high, 3D active, that painted a layer
C15_Witness ==
  /\ lastCall.op = "resize"
  /\ lastCall.size = <<640, 0>>
  /\ is3DActive(globalRotation)
  /\ Len(Out.invoked) >= 1
  /\ \E i \in 1..Len(Out.ops) : Out.ops[i][1] = "drawImage"

SumOfSquares(v) == v[1] * v[1] + v[2] * v[2] + v[3] * v[3]

\* C16: 3D is active (the pass computes the MVP and transforms the layers)
\* exactly when the length of the global rotation exceeds 0.001; it is
\* inactive after construction, after setRotation(0,0,0) and after
\* set3DEnabled(false); set3DEnabled(true) changes neither the rotation nor
\* whether 3D is active.
C16_ActiveIffRotated ==
  /\ Rendered => (Out.active <=> SumOfSquares(Before.globalRotation) > 1)
  /\ lastCall.op = "constructor" => ~is3DActive(globalRotation)
  /\ lastCall.op = "setRotation" =>
       /\ globalRotation = lastCall.rotation
       /\ lastCall.rotation = <<0, 0, 0>> => ~is3DActive(globalRotation)
  /\ lastCall.op = "set3DEnabled" =>
       IF lastCall.enabled
       THEN /\ globalRotation = lastCall.before
            /\ is3DActive(globalRotation) <=> SumOfSquares(lastCall.before) > 1
       ELSE /\ globalRotation = <<0, 0, 0>>
            /\ ~is3DActive(globalRotation)

\* set3DEnabled(false) was called while 3D was active at a rotation of length
\* above 0.001 none of whose angles exceeds 0.001
C16_Witness ==
  /\ lastCall.op = "set3DEnabled"
  /\ ~lastCall.enabled
  /\ lastCall.before = <<1, 1, 0>>

\* ------------------------------------------------------ layer-3d-utils claims
\* rank of the k-th layer of the array in ascending zIndex order, from 0;
\* layers of equal zIndex rank in array order
Rank(arr, zi, k) ==
  Cardinality({j \in 1..Len(arr) :
                 \/ zi[arr[j]] < zi[arr[k]]
                 \/ zi[arr[j]] = zi[arr[k]] /\ j < k})

Elements(arr) == {arr[i] : i \in 1..Len(arr)}
DistinctZIndex(arr, zi) == \A i, j \in 1..Len(arr) : i # j => zi[arr[i]] # zi[arr[j]]
Called(fn) == lastUtil.fn = fn

\* C17: autoSetLayerDepths gives the layer of rank i in ascending zIndex order
\* the depth start + i * spacing, whatever the order of the array; it leaves
\* the array, every zIndex and every layer not in the array as they were; and
\* a second call with the same arguments changes no depth.
C17_AutoDepthsByZIndex ==
  Called("autoSetLayerDepths") =>
    LET arr == lastUtil.layers
        zi == lastUtil.before.zIndex
    IN /\ \A k \in 1..Len(arr) :
            stage.zPosition[arr[k]] =
              <<lastUtil.startDepth + Rank(arr, zi, k) * lastUtil.depthSpacing, 1>>
       /\ \A L \in StageLayers \ Elements(arr) :
            stage.zPosition[L] = lastUtil.before.zPosition[L]
       /\ lastUtil.array = arr
       /\ stage.zIndex = zi
       /\ autoSetLayerDepths(stage, arr, lastUtil.depthSpacing,
                             lastUtil.startDepth).stage = stage
       /\ DistinctZIndex(arr, zi) =>
            \A other \in {a \in LayerArrays : Len(a) = Len(arr)
                                             /\ Elements(a) = Elements(arr)} :
               autoSetLayerDepths(lastUtil.before, other, lastUtil.depthSpacing,
                                  lastUtil.startDepth).stage = stage

\* the call autoSetLayerDepths([L1(0), L2(2), L3(1)], 2, 0): depths 0, 4, 2
C17_Witness ==
  /\ Called("autoSetLayerDepths")
  /\ lastUtil.layers = <<1, 2, 3>>
  /\ stage.zIndex = <<0, 2, 1>>
  /\ lastUtil.depthSpacing = 2
  /\ lastUtil.startDepth = 0
  /\ stage.zPosition = <<<<0, 1>>, <<4, 1>>, <<2, 1>>>>
  /\ lastUtil.before.zPosition # stage.zPosition

\* C18: createStagingEffect changes no depth for 0 or 1 layers; for N > 1 it
\* gives the layer of rank i in ascending zIndex order the depth
\* (i / (N - 1))^curve * maxDepth: 0 for the lowest, maxDepth for the highest,
\* and never less for a higher rank (curve 1 and 2, maxDepth >= 0).
C18_StagedDepths ==
  Called("createStagingEffect") =>
    LET arr == lastUtil.layers
        zi == lastUtil.before.zIndex
        N == Len(arr)
        depth(k) == stage.zPosition[arr[k]]
    IN /\ N <= 1 => stage = lastUtil.before
       /\ N > 1 =>
            \A k \in 1..N :
               /\ depth(k)[1] * Pow(N - 1, lastUtil.curve) =
                    Pow(Rank(arr, zi, k), lastUtil.curve) * lastUtil.maxDepth * depth(k)[2]
               /\ depth(k)[2] > 0
               /\ Rank(arr, zi, k) = 0 => depth(k) = <<0, 1>>
               /\ Rank(arr, zi, k) = N - 1 => depth(k) = <<lastUtil.maxDepth, 1>>
               /\ \A m \in 1..N :
                    Rank(arr, zi, k) <= Rank(arr, zi, m) => ~RatLess(depth(m), depth(k))
       /\ \A L \in StageLayers \ Elements(arr) :
            stage.zPosition[L] = lastUtil.before.zPosition[L]
       /\ lastUtil.array = arr
       /\ stage.zIndex = zi

\* createStagingEffect on three layers given out of zIndex order, curve 2,
\* maxDepth 20: the middle layer gets 5
C18_Witness ==
  /\ Called("createStagingEffect")
  /\ lastUtil.layers = <<1, 2, 3>>
  /\ stage.zIndex = <<0, 2, 1>>
  /\ lastUtil.curve = 2
  /\ lastUtil.maxDepth = 20
  /\ stage.zPosition = <<<<0, 1>>, <<20, 1>>, <<5, 1>>>>

\* squared distance from the camera to (0, 0, depth), times the squared
\* denominator of the depth
ScaledSquaredDistance(cam, depth) ==
  (cam[1] * cam[1] + cam[2] * cam[2]) * depth[2] * depth[2]
    + (cam[3] * depth[2] - depth[1]) * (cam[3] * depth[2] - depth[1])

\* layer a is at least as far from the camera as layer b
NotNearer(cam, da, db) ==
  ScaledSquaredDistance(cam, da) * db[2] * db[2]
    >= ScaledSquaredDistance(cam, db) * da[2] * da[2]

IndexOf(arr, L) == CHOOSE i \in 1..Len(arr) : arr[i] = L

\* C19: sortLayersByDepth returns a permutation of its input ordered by
\* non-increasing distance between the camera and (0, 0, depth) of each layer,
\* layers at equal distance in input order; the input array and the layers
\* are left as they were.
C19_SortedFarthestFirst ==
  Called("sortLayersByDepth") =>
    LET arr == lastUtil.layers
        res == lastUtil.result
        cam == lastUtil.cameraPosition
        depth(L) == lastUtil.before.zPosition[L]
    IN /\ Len(res) = Len(arr)
       /\ \A L \in StageLayers : TimesIn(res, L) = TimesIn(arr, L)
       /\ \A i, j \in 1..Len(res) :
            i < j =>
              /\ NotNearer(cam, depth(res[i]), depth(res[j]))
              /\ NotNearer(cam, depth(res[j]), depth(res[i]))
                   => IndexOf(arr, res[i]) < IndexOf(arr, res[j])
       /\ lastUtil.array = arr
       /\ stage = lastUtil.before

\* a sort of three layers that moved a layer and kept two layers of different
\* depth and equal distance in input order
C19_Witness ==
  /\ Called("sortLayersByDepth")
  /\ Len(lastUtil.layers) = 3
  /\ lastUtil.result # lastUtil.layers
  /\ \E i \in 1..2 :
       /\ stage.zPosition[lastUtil.result[i]] # stage.zPosition[lastUtil.result[i + 1]]
       /\ NotNearer(lastUtil.cameraPosition, stage.zPosition[lastUtil.result[i + 1]],
                    stage.zPosition[lastUtil.result[i]])

\* ----------------------------------------------------- projection claims
\* a row of the MVP applied to the point (x, y, z, 1)
Homogeneous(row, p) == row[1] * p[1] + row[2] * p[2] + row[3] * p[3] + row[4]

\* w = 0 after the MVP multiply, or z / w outside [-1, 1]
Invisible(p, mvp) ==
  LET z == Homogeneous(mvp[3], p)
      w == Homogeneous(mvp[4], p)
  IN w = 0 \/ z * w < -(w * w) \/ z * w > w * w

\* C20: projectPoints returns as many entries as it is given points; entry i
\* is the null marker exactly when point i is invisible, and otherwise the
\* position ((x/w + 1)/2 * width, (1 - y/w)/2 * height) of point i.
C20_ProjectPointsPositional ==
  Called("projectPoints3DTo2D") =>
    LET pts == lastUtil.points
        res == lastUtil.result
        mvp == lastUtil.mvp
    IN /\ Len(res) = Len(pts)
       /\ \A i \in 1..Len(pts) :
            LET x == Homogeneous(mvp[1], pts[i])
                y == Homogeneous(mvp[2], pts[i])
                w == Homogeneous(mvp[4], pts[i])
            IN /\ res[i] = null <=> Invisible(pts[i], mvp)
               /\ ~Invisible(pts[i], mvp) =>
                    /\ Len(res[i]) = 2
                    /\ res[i][1][1] * 2 * w =
                         (x + w) * perspectiveProjection.screenWidth * res[i][1][2]
                    /\ res[i][2][1] * 2 * w =
                         (w - y) * perspectiveProjection.screenHeight * res[i][2][2]

\* three points through the perspective matrix, the second one invisible and
\* the third one not at the centre of the screen
C20_Witness ==
  /\ Called("projectPoints3DTo2D")
  /\ Len(lastUtil.points) = 3
  /\ lastUtil.mvp[4] = <<0, 0, -1, 0>>
  /\ lastUtil.result[1] # null
  /\ lastUtil.result[2] = null
  /\ lastUtil.result[3] # null
  /\ lastUtil.result[3] # lastUtil.result[1]

\* C21: the utility returns 1 when strength = 0 and otherwise
\* 1 + (referenceDistance / max(|z|, 0.1) - 1) * strength, for every z; and
\* the projection's own calculatePerspectiveScale returns the same value.
C21_PerspectiveScalesAgree ==
  Called("calculatePerspectiveScale") =>
    LET z == lastUtil.z
        absZ == IF z[1] < 0 THEN <<-z[1], z[2]>> ELSE z
        effectiveZ == IF absZ[1] * 10 < absZ[2] THEN <<1, 10>> ELSE absZ
        expected ==
          IF lastUtil.perspectiveStrength[1] = 0 THEN <<1, 1>>
          ELSE RatAdd(<<1, 1>>,
                      RatMul(RatSub(RatDiv(<<5, 1>>, effectiveZ), <<1, 1>>),
                             lastUtil.perspectiveStrength))
    IN /\ lastUtil.utility = expected
       /\ lastUtil.projector = lastUtil.utility

\* the utility alone returns the value of the formula
UtilityScaleAsSpecified ==
  Called("calculatePerspectiveScale") =>
    LET z == lastUtil.z
        absZ == IF z[1] < 0 THEN <<-z[1], z[2]>> ELSE z
        effectiveZ == IF absZ[1] * 10 < absZ[2] THEN <<1, 10>> ELSE absZ
    IN lastUtil.utility =
         IF lastUtil.perspectiveStrength[1] = 0 THEN <<1, 1>>
         ELSE RatAdd(<<1, 1>>,
                     RatMul(RatSub(RatDiv(<<5, 1>>, effectiveZ), <<1, 1>>),
                            lastUtil.perspectiveStrength))

\* ---------------------------------------------------------------- C22
UpdateImageResolved ==
  {s \in settled : s.kind = "updateImage" /\ s.outcome = "resolved" /\ s.id = nCalls}

\* C22: when the promise of updateImage(newUrl) resolves (and no call was made
\* after that updateImage), the layer's URL is newUrl, the layer is loaded, and
\* the image it holds is the completely fetched image of newUrl
C22_UpdateImageResolvesLoaded ==
  \A s \in UpdateImageResolved :
     /\ imageUrl[s.layer] = images[s.awaits].url
     /\ isLoaded[s.layer]
     /\ Complete(image[s.layer])
     /\ images[image[s.layer]].url = images[s.awaits].url

\* ---------------------------------------------------------------- C29
Painted(ops) == {ops[i][3] : i \in {j \in 1..Len(ops) : ops[j][1] = "drawImage"}}

\* C29: a loaded layer holds an image whose fetch completed, render() paints
\* only such images, and the loaded and loading flags are never both true
C29_LoadedMeansComplete ==
  /\ \A L \in LayerIds :
        /\ isLoaded[L] => Complete(image[L])
        /\ ~(isLoaded[L] /\ isLoading[L])
  /\ lastCall.op = "layerRender" => \A i \in Painted(lastCall.ops) : Complete(i)

\* ---------------------------------------------------------------- C25
\* the layers in the order a render() pass of a controller holding them paints
PaintOrder(arr, zi) == getSortedLayers(arr, zi).sorted

\* C25: after autoSetLayerDepths (spacing > 0) or createStagingEffect
\* (maxDepth > 0) on layers of distinct zIndex, the order in which render()
\* paints them is the order sortLayersByDepth returns for the camera (0, 0, 5)
C25_OneOrderingConvention ==
  /\ \/ Called("autoSetLayerDepths") /\ lastUtil.depthSpacing > 0
     \/ Called("createStagingEffect") /\ lastUtil.maxDepth > 0
  /\ DistinctZIndex(lastUtil.layers, stage.zIndex)
  => PaintOrder(lastUtil.layers, stage.zIndex)
       = sortLayersByDepth(stage, lastUtil.layers, <<0, 0, DefaultCameraZ>>).result

\* ---------------------------------------------------------------- C26
\* a projected corner lies in the bounds widened by the margin, on both axes
WithinBounds(p, b, margin) ==
  /\ p # null
  /\ ~RatLess(p[1], <<b.left - margin, 1>>)
  /\ ~RatLess(<<b.right + margin, 1>>, p[1])
  /\ ~RatLess(p[2], <<b.top - margin, 1>>)
  /\ ~RatLess(<<b.bottom + margin, 1>>, p[2])

ProjectedCorners ==
  projectPoints3DTo2D(perspectiveProjection, get3DVertices(lastUtil.zPosition),
                      lastUtil.mvpMatrix)

\* C26: isLayerOutsideBounds is true exactly when no corner of the layer,
\* projected to screen coordinates, lies within the bounds widened by the margin
C26_OutsideIffNoProjectedCorner ==
  Called("isLayerOutsideBounds") =>
    (lastUtil.result <=>
       \A i \in 1..4 :
          ~WithinBounds(ProjectedCorners[i], lastUtil.canvasBounds, lastUtil.margin))

\* ---------------------------------------------------------------- C23
TransformSetters ==
  {"Transform3D.setRotation", "Transform3D.setRotationVec3", "Transform3D.setTranslation",
   "Transform3D.setTranslationVec3", "Transform3D.setScale", "Transform3D.setScaleVec3"}
TransformReads == {"Transform3D.getModelMatrix", "Transform3D.getMVPMatrix"}

\* the model matrix of a rotation, translation and scale: scale x rotation x translation
ModelMatrixOf(t) ==
  <<[m |-> "scale", v |-> t.scale], [m |-> "rotation", v |-> t.rotation],
    [m |-> "translation", v |-> t.translation]>>

\* the model matrix a read used: the one returned, or the last factors of the MVP
ModelMatrixUsed ==
  IF lastCall.op = "Transform3D.getModelMatrix" THEN lastCall.result
  ELSE SubSeq(lastCall.result, 3, Len(lastCall.result))

\* C23: a read of getModelMatrix or getMVPMatrix uses the model matrix of the
\* rotation, translation and scale as they are at the read; the matrix is
\* recomputed by a read exactly when the transform is dirty; and the transform
\* is dirty exactly when a set call happened since the last recomputation:
\* every set call leaves it dirty, every read leaves it clean
C23_ReadsUseLatestValues ==
  /\ lastCall.op \in TransformReads =>
       /\ ModelMatrixUsed = ModelMatrixOf(transform3D)
       /\ lastCall.recomputed <=> lastCall.before.isDirty
       /\ ~transform3D.isDirty
       /\ transform3D.modelMatrix = ModelMatrixOf(transform3D)
  /\ lastCall.op \in TransformSetters => transform3D.isDirty
  /\ lastCall.op = "constructor" =>
       ~transform3D.isDirty /\ transform3D.modelMatrix = ModelMatrixOf(transform3D)

\* getModelMatrix read after setScale(1, 2, 3) and setTranslation(1, 2, 3) on
\* a clean transform: the matrix is recomputed from both
C23_Witness ==
  /\ lastCall.op = "Transform3D.getModelMatrix"
  /\ lastCall.recomputed
  /\ lastCall.before.modelMatrix # lastCall.result
  /\ lastCall.result = <<[m |-> "scale", v |-> <<1, 2, 3>>],
                         [m |-> "rotation", v |-> <<0, 0, 0>>],
                         [m |-> "translation", v |-> <<1, 2, 3>>]>>

\* ---------------------------------------------------------------- C24
\* C24: getMVPMatrix returns projection x view x model: its factors are, in
\* order, the projection matrix of the fov, aspect, near and far given, the
\* view matrix of the camera given, and the model matrix of the transform
C24_MvpIsProjectionViewModel ==
  lastCall.op = "Transform3D.getMVPMatrix" =>
    lastCall.result =
      getProjectionMatrix(lastCall.args.settings.fov, lastCall.args.settings.aspect,
                          lastCall.args.settings.near, lastCall.args.settings.far)
      \o getViewMatrix(lastCall.args.cameraPosition)
      \o getModelMatrix(transform3D).result

\* getMVPMatrix read with a camera off the axis and a scaled, translated model
C24_Witness ==
  /\ lastCall.op = "Transform3D.getMVPMatrix"
  /\ lastCall.args.cameraPosition = <<3, 4, 0>>
  /\ transform3D.scale = <<1, 2, 3>>
  /\ transform3D.translation = <<1, 2, 3>>
  /\ Len(lastCall.result) = 5
  /\ lastCall.result[1].m = "perspective"
  /\ lastCall.result[2].m = "lookAt"

\* ---------------------------------------------------------------- C27
SameSettings(a, b) ==
  /\ a.fov = b.fov
  /\ AspectEq(a.aspect, b.aspect)
  /\ a.near = b.near
  /\ a.far = b.far

\* C27: a 3D-active pass computes the MVP with aspect = canvas width / height,
\* and the controller's perspective settings and the projection's settings
\* hold the same fov, aspect, near and far in every state
C27_SettingsInStep ==
  /\ Rendered /\ Out.active =>
       AspectEq(Out.mvp[1].aspect, <<mainCanvas.width, mainCanvas.height>>)
  /\ SameSettings(perspectiveSettings, perspectiveProjection.settings)

\* ---------------------------------------------------------------- C28
\* C28: the controller's global rotation equals the rotation of its global
\* Transform3D in every state
C28_RotationsAgree ==
  /\ globalRotation = transform3D.rotation
  /\ Rendered /\ Out.active =>
       Out.mvp[Len(Out.mvp) - 1] = [m |-> "rotation", v |-> globalRotation]

\* set3DEnabled(false) called at rotation (1, 1, 0), after a 3D-active pass at
\* (0, 500, 0) had computed the model matrix: both rotations are zero
C28_Witness ==
  /\ lastCall.op = "set3DEnabled"
  /\ ~lastCall.enabled
  /\ lastCall.before = <<1, 1, 0>>
  /\ transform3D.modelMatrix[2].v = <<0, 500, 0>>
  /\ transform3D.isDirty
  /\ globalRotation = <<0, 0, 0>>
  /\ transform3D.rotation = <<0, 0, 0>>

\* ---------------------------------------------------------------- C30
\* C30: in every state every layer's transform has the translation
\* (0, 0, zPosition)
C30_TransformFollowsDepth ==
  \A L \in StageLayers :
     stage.transform3D[L].translation = <<<<0, 1>>, <<0, 1>>, stage.zPosition[L]>>

\* what does hold: right after updateTransform3D() the layer's transform has
\* the translation (0, 0, zPosition)
TranslationAfterUpdate ==
  Called("updateTransform3D") =>
    stage.transform3D[lastUtil.layer].translation
      = <<<<0, 1>>, <<0, 1>>, stage.zPosition[lastUtil.layer]>>
====
